---- MODULE Spec2Model ----
(***************************************************************************)
(* compile_script_docs.py: the documentation generator of EmptyEpsilon.    *)
(*                                                                         *)
(* DocumentationGenerator collects source files (addDirectory, addFile),   *)
(* extracts method signatures from headers (readFunctionInfo) and script   *)
(* declarations from every file (readScriptDefinitions), and links them    *)
(* (linkFunctions, linkParents).                                           *)
(*                                                                         *)
(* Representation.                                                         *)
(*   - A Python value that may be None is a sequence of length <= 1:       *)
(*     None is <<>>, the value x is <<x>>.  The empty string is <<"">>     *)
(*     and so differs from None.                                           *)
(*   - A reference to an object of _definitions is its index in the list   *)
(*     (the list only grows); the reference None is NoObject.              *)
(*   - A description is the sequence of the pieces concatenated into it;   *)
(*     the empty string is <<>>.                                           *)
(*   - A path is the sequence of its components.                           *)
(*   - A line of a file is the record of what each regular expression of   *)
(*     the scanners finds in it.                                           *)
(***************************************************************************)
EXTENDS Naturals, Sequences, FiniteSets, TLC

VARIABLES
    tree,            \* the file system: path -> lines, for every regular file
    _files,          \* DocumentationGenerator._files
    stack,           \* the calls of addDirectory and addFile that have not returned
    order,           \* the order in which iterating the set _files yields its elements
    _function_info,  \* DocumentationGenerator._function_info
    _definitions,    \* DocumentationGenerator._definitions
    pc,              \* the call of __main__ that runs next
    sd_file,         \* readScriptDefinitions: how many files the outer loop has taken
    sd_line,         \* readScriptDefinitions: how many lines of that file were read
    description,     \* readScriptDefinitions: the local description
    current_class,   \* readScriptDefinitions: the local current_class
    stdout,          \* what print() has written
    linkRuns,        \* how many times linkParents has returned
    firstLinked,     \* _definitions as the first linkParents left it
    stream           \* what generateDocs has written to the file it was given

vars == <<tree, _files, stack, order, _function_info, _definitions, pc, sd_file, sd_line,
          description, current_class, stdout, linkRuns, firstLinked, stream>>

None == <<>>
Some(x) == <<x>>
NoObject == 0

(***************************************************************************)
(* Bounds of the inputs.                                                   *)
(***************************************************************************)
MaxLinkLines == 3
MaxLinkRuns == 2
MaxSigLines == 2
MaxDeclLines == 3
MaxDocLines == 4
MaxTreeLines == 3
MaxIncludes == 1
\* The longest path, in components, that the operating system resolves.
MaxPath == 6

(***************************************************************************)
(* Lines.                                                                  *)
(***************************************************************************)
BlankLine ==
    [hash |-> FALSE, include |-> None, doc |-> None,
     cls |-> None, clsnc |-> None, sub |-> None, subnc |-> None,
     cfunc |-> None, ccb |-> None, func |-> None,
     qual |-> None, classdecl |-> None, insig |-> None]

HashLine == [BlankLine EXCEPT !.hash = TRUE]
IncludeLine(target) == [HashLine EXCEPT !.include = Some(target)]
DocLine(text) == [BlankLine EXCEPT !.doc = Some(text)]
ClassLine(n) == [BlankLine EXCEPT !.cls = Some(n)]
ClassNoCreateLine(n) == [BlankLine EXCEPT !.clsnc = Some(n)]
SubclassLine(n, p) == [BlankLine EXCEPT !.sub = Some(<<n, p>>)]
SubclassNoCreateLine(n, p) == [BlankLine EXCEPT !.subnc = Some(<<n, p>>)]
ClassFunctionLine(o, n) == [BlankLine EXCEPT !.cfunc = Some(<<o, n>>)]
ClassCallbackLine(o, n) == [BlankLine EXCEPT !.ccb = Some(<<o, n>>)]
FunctionLine(n) == [BlankLine EXCEPT !.func = Some(n)]
QualifiedLine(o, n, p) == [BlankLine EXCEPT !.qual = Some(<<o, n, p>>)]
ClassHeadLine(n) == [BlankLine EXCEPT !.classdecl = Some(n)]
MethodLine(n, p) == [BlankLine EXCEPT !.insig = Some(<<n, p>>)]

(***************************************************************************)
(* The entities.                                                           *)
(***************************************************************************)
ScriptFunction(name) ==
    [kind |-> "ScriptFunction", name |-> name, description |-> <<>>,
     origin_class |-> None, parameters |-> None]

ScriptMember(name) ==
    [kind |-> "ScriptMember", name |-> name, description |-> <<>>,
     origin_class |-> None]

ScriptClass(name) ==
    [kind |-> "ScriptClass", name |-> name, parent_name |-> None,
     parent |-> NoObject, description |-> <<>>, children |-> <<>>,
     create |-> TRUE, functions |-> <<>>, members |-> <<>>, callbacks |-> <<>>]

isScriptClass(d) == d.kind = "ScriptClass"

addFunction(c, f) == [c EXCEPT !.functions = Append(@, f)]
addMember(c, m) == [c EXCEPT !.members = Append(@, m)]
addCallback(c, callback_name) == [c EXCEPT !.callbacks = Append(@, callback_name)]

(***************************************************************************)
(* readScriptDefinitions, one line.  st is the state the loop body works   *)
(* on: [defs, description, current_class, aborted].                        *)
(***************************************************************************)
NewClass(st, name, parent_name, create) ==
    [st EXCEPT
        !.defs = Append(@, [ScriptClass(name) EXCEPT
                                !.parent_name = parent_name,
                                !.create = create,
                                !.description = st.description]),
        !.current_class = Len(st.defs) + 1]

DefClass(st, line) ==
    IF line.cls = None THEN st
    ELSE NewClass(st, line.cls[1], None, TRUE)

DefClassNoCreate(st, line) ==
    IF line.clsnc = None THEN st
    ELSE NewClass(st, line.clsnc[1], None, FALSE)

DefSubclass(st, line) ==
    IF line.sub = None THEN st
    ELSE NewClass(st, line.sub[1][1], Some(line.sub[1][2]), TRUE)

DefSubclassNoCreate(st, line) ==
    IF line.subnc = None THEN st
    ELSE NewClass(st, line.subnc[1][1], Some(line.subnc[1][2]), FALSE)

\* current_class.addFunction(...) raises AttributeError when current_class is None.
DefClassFunction(st, line) ==
    IF st.aborted \/ line.cfunc = None THEN st
    ELSE IF st.current_class = NoObject THEN [st EXCEPT !.aborted = TRUE]
    ELSE [st EXCEPT !.defs[st.current_class] =
            addFunction(@, [ScriptFunction(line.cfunc[1][2]) EXCEPT
                                !.description = st.description,
                                !.origin_class = Some(line.cfunc[1][1])])]

DefClassCallback(st, line) ==
    IF st.aborted \/ line.ccb = None THEN st
    ELSE IF st.current_class = NoObject THEN [st EXCEPT !.aborted = TRUE]
    ELSE [st EXCEPT !.defs[st.current_class] = addCallback(@, line.ccb[1][2])]

DefFunction(st, line) ==
    IF st.aborted \/ line.func = None THEN st
    ELSE [st EXCEPT
            !.current_class = NoObject,
            !.defs = Append(@, [ScriptFunction(line.func[1]) EXCEPT
                                    !.description = st.description])]

\* A variant of ClearDescription that forgets to reset the description.
KeepDescription(st) == st

ClearDescription(st) ==
    IF st.aborted THEN st ELSE [st EXCEPT !.description = <<>>]

AppendDoc(desc, text) ==
    (IF desc # <<>> THEN desc \o <<"\n">> ELSE desc) \o text

DefLine(st, line) ==
    IF line.hash THEN st
    ELSE IF line.doc # None
        THEN [st EXCEPT !.description = AppendDoc(@, line.doc[1])]
    ELSE ClearDescription(
            DefFunction(
              DefClassCallback(
                DefClassFunction(
                  DefSubclassNoCreate(
                    DefSubclass(
                      DefClassNoCreate(
                        DefClass(st, line), line), line), line), line), line), line))

(***************************************************************************)
(* readScriptDefinitions, all the lines of one file and all the files of   *)
(* an iteration order (the loop nest as a function of its input).          *)
(***************************************************************************)
RECURSIVE DefLines(_, _, _)
DefLines(st, lines, i) ==
    IF st.aborted \/ i > Len(lines) THEN st
    ELSE DefLines(DefLine(st, lines[i]), lines, i + 1)

RECURSIVE DefFiles(_, _, _, _)
DefFiles(st, fs, o, k) ==
    IF st.aborted \/ k > Len(o) THEN st
    ELSE DefFiles(DefLines([st EXCEPT !.description = <<>>,
                                      !.current_class = NoObject],
                           fs[o[k]], 1),
                  fs, o, k + 1)

ScanStart(defs) ==
    [defs |-> defs, description |-> <<>>, current_class |-> NoObject,
     aborted |-> FALSE]

(***************************************************************************)
(* readFunctionInfo.                                                       *)
(***************************************************************************)
\* os.path.splitext(filename)[1] of the file names of the model.
splitext(name) ==
    CASE name \in {"a.h", "b.h"} -> ".h"
      [] name \in {"a.cpp", "b.cpp"} -> ".cpp"
      [] name \in {"n.txt"} -> ".txt"
      [] OTHER -> ""

endswithH(filename) == splitext(filename[Len(filename)]) = ".h"

\* st is [info, current_class], current_class a class name or None.
InfoLine(st, line) ==
    IF line.hash THEN st
    ELSE
        LET s1 == IF line.qual = None THEN st
                  ELSE [st EXCEPT !.info = Append(@, line.qual[1])]
            s2 == IF line.classdecl = None THEN s1
                  ELSE [s1 EXCEPT !.current_class = line.classdecl]
        IN  IF s2.current_class # None /\ line.insig # None
            THEN [s2 EXCEPT !.info = Append(@, <<s2.current_class[1],
                                                 line.insig[1][1],
                                                 line.insig[1][2]>>)]
            ELSE s2

RECURSIVE InfoLines(_, _, _)
InfoLines(st, lines, i) ==
    IF i > Len(lines) THEN st
    ELSE InfoLines(InfoLine(st, lines[i]), lines, i + 1)

RECURSIVE InfoFiles(_, _, _, _)
InfoFiles(info, fs, o, k) ==
    IF k > Len(o) THEN info
    ELSE IF ~endswithH(o[k]) THEN InfoFiles(info, fs, o, k + 1)
    ELSE InfoFiles(InfoLines([info |-> info, current_class |-> None],
                             fs[o[k]], 1).info,
                   fs, o, k + 1)

(***************************************************************************)
(* linkFunctions.                                                          *)
(***************************************************************************)
\* A variant of LinkFunction that matches on the method name alone.
LinkFunctionByName(func, triple) ==
    IF func.name = triple[2]
    THEN [func EXCEPT !.parameters = Some(triple[3])]
    ELSE func

\* A variant of LinkFunction that leaves parameters already set alone.
LinkFunctionOnce(func, triple) ==
    IF func.origin_class = Some(triple[1]) /\ func.name = triple[2]
       /\ func.parameters = None
    THEN [func EXCEPT !.parameters = Some(triple[3])]
    ELSE func

LinkFunction(func, triple) ==
    IF func.origin_class = Some(triple[1]) /\ func.name = triple[2]
    THEN [func EXCEPT !.parameters = Some(triple[3])]
    ELSE func

LinkTriple(defs, triple) ==
    [i \in DOMAIN defs |->
        IF isScriptClass(defs[i])
        THEN [defs[i] EXCEPT !.functions =
                [k \in DOMAIN @ |-> LinkFunction(@[k], triple)]]
        ELSE defs[i]]

RECURSIVE LinkTriples(_, _, _)
LinkTriples(defs, info, t) ==
    IF t > Len(info) THEN defs
    ELSE LinkTriples(LinkTriple(defs, info[t]), info, t + 1)

(***************************************************************************)
(* linkParents.  s is [defs, out, aborted]; out is what print() wrote.     *)
(***************************************************************************)
isValidDescription ==
    <<"Check if this is still looking at a valid object. Returns false when the objects that this variable references is destroyed.">>
destroyDescription == <<"Removes this object from the game.">>
typeNameDescription ==
    <<"Returns the class name of this object, this is not a function, but a direct member: if object.typeName == \"Mine\" then print(\"MINE!\") end">>

ParentNotFound(i) == [msg |-> "Parent not found for: ", definition |-> i]

\* A variant of FindParent that leaves the inner loop at the first match.
RECURSIVE FindParentBreak(_, _, _)
FindParentBreak(s, i, j) ==
    IF s.aborted \/ j > Len(s.defs) THEN s
    ELSE IF s.defs[j].name = s.defs[i].parent_name[1]
    THEN LET s1 == [s EXCEPT !.defs[i].parent = j]
         IN  IF isScriptClass(s1.defs[j])
             THEN [s1 EXCEPT !.defs[j].children = Append(@, i)]
             ELSE [s1 EXCEPT !.aborted = TRUE]
    ELSE FindParentBreak(s, i, j + 1)

\* d.children.append(definition) raises AttributeError when d is a ScriptFunction.
RECURSIVE FindParent(_, _, _)
FindParent(s, i, j) ==
    IF s.aborted \/ j > Len(s.defs) THEN s
    ELSE IF s.defs[j].name = s.defs[i].parent_name[1]
    THEN LET s1 == [s EXCEPT !.defs[i].parent = j]
         IN  IF isScriptClass(s1.defs[j])
             THEN FindParent([s1 EXCEPT !.defs[j].children = Append(@, i)], i, j + 1)
             ELSE [s1 EXCEPT !.aborted = TRUE]
    ELSE FindParent(s, i, j + 1)

AddRootMembers(c) ==
    addMember(
      addFunction(
        addFunction(c, [ScriptFunction("isValid") EXCEPT
                            !.parameters = Some(""),
                            !.description = isValidDescription]),
        [ScriptFunction("destroy") EXCEPT
            !.parameters = Some(""),
            !.description = destroyDescription]),
      [ScriptMember("typeName") EXCEPT !.description = typeNameDescription])

LinkParent(s, i) ==
    IF ~isScriptClass(s.defs[i]) THEN s
    ELSE IF s.defs[i].parent_name # None
    THEN LET s1 == FindParent(s, i, 1)
         IN  IF s1.aborted THEN s1
             ELSE IF s1.defs[i].parent = NoObject
             THEN [s1 EXCEPT !.out = Append(@, ParentNotFound(i))]
             ELSE s1
    ELSE [s EXCEPT !.defs[i] = AddRootMembers(@)]

RECURSIVE LinkParentsFrom(_, _)
LinkParentsFrom(s, i) ==
    IF s.aborted \/ i > Len(s.defs) THEN s
    ELSE LinkParentsFrom(LinkParent(s, i), i + 1)

(***************************************************************************)
(* generateDocs.  s is [defs, stream, out, aborted].  The stream is the    *)
(* sequence of the elements written that depend on the definitions; an     *)
(* element is its tag, the object it is written for and the text written   *)
(* in it.  The text that is the same for every input is left out.          *)
(***************************************************************************)
Written(tag, obj, text) == [tag |-> tag, obj |-> obj, text |-> text]

FailedToFind(i, k) ==
    [msg |-> "Failed to find parameters for ", definition |-> i, function |-> k]

\* text.replace("<", "&lt;"), on the strings the inputs hold.
replaceLt(text) == IF text = "P<Q> z" THEN "P&lt;Q> z" ELSE text

\* description.replace("<", "&lt;").replace("\n", "<br>")
replaceDescription(desc) ==
    [k \in DOMAIN desc |-> IF desc[k] = "\n" THEN "<br>" ELSE replaceLt(desc[k])]

\* A tree without a cycle is less deep than this; the interpreter raises
\* RecursionError when the calls nest deeper than its recursion limit.
RecursionLimit == MaxLinkLines + 2

RECURSIVE outputClassTree(_, _, _)
RECURSIVE outputChildren(_, _, _, _)
outputClassTree(s, i, depth) ==
    IF s.aborted THEN s
    ELSE IF depth > RecursionLimit THEN [s EXCEPT !.aborted = TRUE]
    ELSE LET name == s.defs[i].name
             s1 == [s EXCEPT !.stream = Append(@, Written("li", i, <<name>>))]
         IN  IF Len(s.defs[i].children) > 0
             THEN LET s2 == outputChildren(
                              [s1 EXCEPT !.stream = Append(@, Written("ul", NoObject, <<>>))],
                              i, 1, depth)
                  IN  IF s2.aborted THEN s2
                      ELSE [s2 EXCEPT !.stream = Append(@, Written("/ul", NoObject, <<>>))]
             ELSE s1

\* for c in self.children: c.outputClassTree(stream), from the k-th child on.
outputChildren(s, i, k, depth) ==
    IF s.aborted \/ k > Len(s.defs[i].children) THEN s
    ELSE outputChildren(outputClassTree(s, s.defs[i].children[k], depth + 1),
                        i, k + 1, depth)

\* The section Objects: the loop over _definitions, from the i-th on.
RECURSIVE ObjectsFrom(_, _)
ObjectsFrom(s, i) ==
    IF s.aborted \/ i > Len(s.defs) THEN s
    ELSE IF isScriptClass(s.defs[i]) /\ s.defs[i].parent = NoObject
    THEN ObjectsFrom(outputClassTree(s, i, 1), i + 1)
    ELSE ObjectsFrom(s, i + 1)

\* The section Functions.
RECURSIVE FunctionsFrom(_, _)
FunctionsFrom(s, i) ==
    IF i > Len(s.defs) THEN s
    ELSE IF s.defs[i].kind = "ScriptFunction"
    THEN FunctionsFrom(
           [s EXCEPT !.stream = @ \o
              <<Written("li", i, <<s.defs[i].name>>),
                Written("dd", i, replaceDescription(s.defs[i].description))>>],
           i + 1)
    ELSE FunctionsFrom(s, i + 1)

\* for func in d.functions, from the k-th on.
RECURSIVE ClassFunctionsFrom(_, _, _)
ClassFunctionsFrom(s, i, k) ==
    IF k > Len(s.defs[i].functions) THEN s
    ELSE LET d == s.defs[i]
             func == d.functions[k]
             s1 == IF func.parameters = None
                   THEN [s EXCEPT
                           !.stream = Append(@, Written("dt", i,
                                                  <<d.name, func.name, "NOT FOUND">>)),
                           !.out = Append(@, FailedToFind(i, k))]
                   ELSE [s EXCEPT
                           !.stream = Append(@, Written("dt", i,
                                                  <<d.name, func.name,
                                                    replaceLt(func.parameters[1])>>))]
         IN  ClassFunctionsFrom(
               [s1 EXCEPT !.stream = Append(@, Written("dd", i,
                                                  replaceDescription(func.description)))],
               i, k + 1)

\* for member in d.members, from the k-th on.
RECURSIVE ClassMembersFrom(_, _, _)
ClassMembersFrom(s, i, k) ==
    IF k > Len(s.defs[i].members) THEN s
    ELSE LET d == s.defs[i]
             member == d.members[k]
         IN  ClassMembersFrom(
               [s EXCEPT !.stream = @ \o
                  <<Written("dt", i, <<d.name, member.name>>),
                    Written("dd", i, replaceDescription(member.description))>>],
               i, k + 1)

\* One section for every class, from the i-th definition on.
RECURSIVE ClassSectionsFrom(_, _)
ClassSectionsFrom(s, i) ==
    IF i > Len(s.defs) THEN s
    ELSE IF isScriptClass(s.defs[i])
    THEN LET d == s.defs[i]
             s1 == [s EXCEPT !.stream = @ \o
                      <<Written("h2", i, <<d.name>>),
                        Written("div", i, replaceDescription(d.description))>>]
             s2 == IF d.parent # NoObject
                   THEN [s1 EXCEPT !.stream = Append(@,
                            Written("Subclass of", d.parent, <<s.defs[d.parent].name>>))]
                   ELSE s1
             s3 == ClassMembersFrom(
                     ClassFunctionsFrom(
                       [s2 EXCEPT !.stream = Append(@, Written("dl", i, <<>>))], i, 1),
                     i, 1)
         IN  ClassSectionsFrom(
               [s3 EXCEPT !.stream = Append(@, Written("/dl", i, <<>>))], i + 1)
    ELSE ClassSectionsFrom(s, i + 1)

\* The whole of generateDocs; what is written stays written when it raises.
GenerateDocs(s) ==
    LET s1 == ObjectsFrom(
                [s EXCEPT !.stream = @ \o <<Written("h2", NoObject, <<"Objects">>),
                                            Written("ul", NoObject, <<>>)>>], 1)
    IN  IF s1.aborted THEN s1
        ELSE ClassSectionsFrom(
               [FunctionsFrom(
                  [s1 EXCEPT !.stream = @ \o <<Written("/ul", NoObject, <<>>),
                                               Written("h2", NoObject, <<"Functions">>),
                                               Written("ul", NoObject, <<>>)>>], 1)
                EXCEPT !.stream = Append(@, Written("/ul", NoObject, <<>>))], 1)

(***************************************************************************)
(* The file system.  Paths are relative to the working directory, whose    *)
(* parent holds nothing; tree maps the path of every regular file, without *)
(* ".." components, to its lines.                                          *)
(***************************************************************************)
Front(p) == SubSeq(p, 1, Len(p) - 1)

Directories == UNION {{SubSeq(f, 1, n) : n \in 0..(Len(f) - 1)} : f \in DOMAIN tree}

NoSuchPath == <<"?">>

\* The file or directory the path leads to: every component but the last
\* must lead to a directory, ".." leads to the parent.
RECURSIVE Walk(_, _, _)
Walk(at, p, i) ==
    IF i > Len(p) THEN at
    ELSE IF at \notin Directories THEN NoSuchPath
    ELSE IF p[i] = ".."
    THEN (IF at = <<>> THEN NoSuchPath ELSE Walk(Front(at), p, i + 1))
    ELSE Walk(Append(at, p[i]), p, i + 1)

Resolve(p) == IF Len(p) > MaxPath THEN NoSuchPath ELSE Walk(<<>>, p, 1)

isfile(p) == Resolve(p) \in DOMAIN tree
isdir(p) == Resolve(p) \in Directories
listdir(d) ==
    {f[Len(Resolve(d)) + 1] :
        f \in {g \in DOMAIN tree : /\ Len(g) > Len(Resolve(d))
                                  /\ SubSeq(g, 1, Len(Resolve(d))) = Resolve(d)}}

(***************************************************************************)
(* addDirectory and addFile.  c is [files, stack]; a frame of the stack is *)
(* a call that has not returned: addDirectory with the names it has yet to *)
(* take from os.listdir, addFile with the line it reads next and which of  *)
(* the two addFile calls of an include comes next.                         *)
(***************************************************************************)
Frame(fn, path, todo) ==
    [fn |-> fn, path |-> path, todo |-> todo, line |-> 1, second |-> FALSE]

CallAddDirectory(c, directory) ==
    IF ~isdir(directory) THEN c
    ELSE [c EXCEPT !.stack = Append(@, Frame("addDirectory", directory,
                                              listdir(directory)))]

\* filename in self._files
SeenFile(files, filename) == filename \in files

CallAddFile(c, filename) ==
    IF SeenFile(c.files, filename) THEN c
    ELSE IF ~isfile(filename) THEN c
    ELSE LET c1 == [c EXCEPT !.files = @ \cup {filename}]
         IN  IF splitext(filename[Len(filename)]) \in {".c", ".cpp", ".h"}
             THEN [c1 EXCEPT !.stack = Append(@, Frame("addFile", filename, {}))]
             ELSE c1

Top == stack[Len(stack)]
SetTop(f) == [stack EXCEPT ![Len(stack)] = f]

\* __main__: dg.addDirectory("src"), then dg.addDirectory("../SeriousProton/src").
addDirectory ==
    /\ stack = <<>>
    /\ pc \in {"addDirectory(src)", "addDirectory(../SeriousProton/src)"}
    /\ LET directory == IF pc = "addDirectory(src)" THEN <<"src">>
                        ELSE <<"..", "SeriousProton", "src">>
           c == CallAddDirectory([files |-> _files, stack |-> stack], directory)
       IN  /\ stack' = c.stack
           /\ _files' = c.files
    /\ pc' = IF pc = "addDirectory(src)" THEN "addDirectory(../SeriousProton/src)"
             ELSE "collected"
    /\ UNCHANGED <<tree, order, _function_info, _definitions, sd_file, sd_line,
                   description, current_class, stdout, linkRuns, firstLinked, stream>>

\* for name in os.listdir(directory): one name, in whatever order listdir gives.
AddDirectoryStep ==
    /\ stack # <<>>
    /\ Top.fn = "addDirectory"
    /\ IF Top.todo = {}
       THEN /\ stack' = Front(stack)
            /\ UNCHANGED _files
       ELSE \E n \in Top.todo :
               LET name == Append(Top.path, n)
                   c0 == [files |-> _files,
                          stack |-> SetTop([Top EXCEPT !.todo = @ \ {n}])]
                   c == IF isdir(name) THEN CallAddDirectory(c0, name)
                        ELSE IF isfile(name) THEN CallAddFile(c0, name)
                        ELSE c0
               IN  /\ stack' = c.stack
                   /\ _files' = c.files
    /\ UNCHANGED <<tree, order, _function_info, _definitions, pc, sd_file, sd_line,
                   description, current_class, stdout, linkRuns, firstLinked, stream>>

\* for line in io.open(filename): one line, or one of the two calls it makes.
AddFileStep ==
    /\ stack # <<>>
    /\ Top.fn = "addFile"
    /\ LET lines == tree[Resolve(Top.path)]
       IN  IF Top.line > Len(lines)
           THEN /\ stack' = Front(stack)
                /\ UNCHANGED _files
           ELSE IF lines[Top.line].include = None
           THEN /\ stack' = SetTop([Top EXCEPT !.line = @ + 1])
                /\ UNCHANGED _files
           ELSE LET m == lines[Top.line].include[1]
                    c == IF ~Top.second
                         THEN CallAddFile(
                                [files |-> _files,
                                 stack |-> SetTop([Top EXCEPT !.second = TRUE])],
                                m)
                         ELSE CallAddFile(
                                [files |-> _files,
                                 stack |-> SetTop([Top EXCEPT !.second = FALSE,
                                                              !.line = @ + 1])],
                                Front(Top.path) \o m)
                IN  /\ stack' = c.stack
                    /\ _files' = c.files
    /\ UNCHANGED <<tree, order, _function_info, _definitions, pc, sd_file, sd_line,
                   description, current_class, stdout, linkRuns, firstLinked, stream>>

(***************************************************************************)
(* The calls of __main__, as actions.                                      *)
(***************************************************************************)
readFunctionInfo ==
    /\ pc = "readFunctionInfo"
    /\ _function_info' = InfoFiles(_function_info, tree, order, 1)
    /\ pc' = "readScriptDefinitions"
    /\ UNCHANGED <<tree, _files, stack, order, _definitions, sd_file, sd_line,
                   description, current_class, stdout, linkRuns, firstLinked, stream>>

FileDone == IF sd_file = 0 THEN TRUE ELSE sd_line = Len(tree[order[sd_file]])

\* for filename in self._files: the next file.
SD_NextFile ==
    /\ pc = "readScriptDefinitions"
    /\ FileDone
    /\ sd_file < Len(order)
    /\ sd_file' = sd_file + 1
    /\ sd_line' = 0
    /\ description' = <<>>
    /\ current_class' = NoObject
    /\ UNCHANGED <<tree, _files, stack, order, _function_info, _definitions, pc, stdout,
                   linkRuns, firstLinked, stream>>

\* for line in io.open(filename): the next line.
SD_Line ==
    /\ pc = "readScriptDefinitions"
    /\ sd_file > 0
    /\ sd_line < Len(tree[order[sd_file]])
    /\ LET st == DefLine([defs |-> _definitions, description |-> description,
                          current_class |-> current_class, aborted |-> FALSE],
                         tree[order[sd_file]][sd_line + 1])
       IN  /\ _definitions' = st.defs
           /\ description' = st.description
           /\ current_class' = st.current_class
           /\ pc' = IF st.aborted THEN "aborted_readScriptDefinitions" ELSE pc
    /\ sd_line' = sd_line + 1
    /\ UNCHANGED <<tree, _files, stack, order, _function_info, sd_file, stdout, linkRuns,
                   firstLinked, stream>>

\* The loops are over: readScriptDefinitions returns.
SD_Return ==
    /\ pc = "readScriptDefinitions"
    /\ FileDone
    /\ sd_file = Len(order)
    /\ pc' = "linkFunctions"
    /\ sd_file' = 0
    /\ sd_line' = 0
    /\ description' = <<>>
    /\ current_class' = NoObject
    /\ UNCHANGED <<tree, _files, stack, order, _function_info, _definitions, stdout,
                   linkRuns, firstLinked, stream>>

\* Called by __main__ once; a caller that links again calls it after linkParents.
linkFunctions ==
    /\ pc \in {"linkFunctions", "generateDocs"}
    /\ pc = "generateDocs" => linkRuns < MaxLinkRuns
    /\ _definitions' = LinkTriples(_definitions, _function_info, 1)
    /\ pc' = "linkParents"
    /\ UNCHANGED <<tree, _files, stack, order, _function_info, sd_file, sd_line,
                   description, current_class, stdout, linkRuns, firstLinked, stream>>

linkParents ==
    /\ pc = "linkParents"
    /\ LET s == LinkParentsFrom([defs |-> _definitions, out |-> stdout,
                                 aborted |-> FALSE], 1)
       IN  /\ _definitions' = s.defs
           /\ stdout' = s.out
           /\ pc' = IF s.aborted THEN "aborted_linkParents" ELSE "generateDocs"
           /\ linkRuns' = IF s.aborted THEN linkRuns ELSE linkRuns + 1
           /\ firstLinked' = IF ~s.aborted /\ linkRuns = 0 THEN Some(s.defs)
                             ELSE firstLinked
    /\ UNCHANGED <<tree, _files, stack, order, _function_info, sd_file, sd_line,
                   description, current_class, stream>>

\* __main__ calls it last; a RecursionError in outputClassTree is not caught.
generateDocs ==
    /\ pc = "generateDocs"
    /\ LET s == GenerateDocs([defs |-> _definitions, stream |-> stream,
                              out |-> stdout, aborted |-> FALSE])
       IN  /\ stream' = s.stream
           /\ stdout' = s.out
           /\ pc' = IF s.aborted THEN "aborted_generateDocs" ELSE "done"
    /\ UNCHANGED <<tree, _files, stack, order, _function_info, _definitions, sd_file,
                   sd_line, description, current_class, linkRuns, firstLinked>>

(***************************************************************************)
(* The inputs: which files there are, what they hold, and the order in     *)
(* which the set _files yields them.                                       *)
(***************************************************************************)
Orders(S) ==
    {o \in [1..Cardinality(S) -> S] : \A i, j \in DOMAIN o : i # j => o[i] # o[j]}

SeqsUpTo(L, n) == UNION {[1..m -> L] : m \in 0..n}

\* Two files holding at most n lines of L between them.
TwoFiles(f1, f2, L, n) ==
    UNION {{(f1 :> a) @@ (f2 :> b) : a \in [1..k -> L], b \in SeqsUpTo(L, n - k)}
           : k \in 0..n}

\* The state __main__ starts the passes in, the files collected.
InitPasses(trees) ==
    /\ tree \in trees
    /\ _files = DOMAIN tree
    /\ stack = <<>>
    /\ order \in Orders(_files)
    /\ _function_info = <<>>
    /\ _definitions = <<>>
    /\ pc = "readFunctionInfo"
    /\ sd_file = 0
    /\ sd_line = 0
    /\ description = <<>>
    /\ current_class = NoObject
    /\ stdout = <<>>
    /\ linkRuns = 0
    /\ firstLinked = None
    /\ stream = <<>>

NextPasses ==
    \/ readFunctionInfo
    \/ SD_NextFile
    \/ SD_Line
    \/ SD_Return
    \/ linkFunctions
    \/ linkParents
    \/ generateDocs

(***************************************************************************)
(* SpecLink: two source files of declaration macros.                       *)
(***************************************************************************)
LinkLines ==
    {ClassLine("A"), ClassNoCreateLine("B"),
     SubclassLine("B", "A"), SubclassLine("A", "A"),
     SubclassNoCreateLine("B", "g"),
     ClassFunctionLine("A", "isValid"), ClassCallbackLine("A", "onHit"),
     FunctionLine("g")}

InitLink ==
    InitPasses(TwoFiles(<<"src", "a.cpp">>, <<"src", "b.cpp">>, LinkLines, MaxLinkLines))

SpecLink == InitLink /\ [][NextPasses]_vars

(***************************************************************************)
(* SpecSig: a header of signatures and a source file of declarations.      *)
(***************************************************************************)
SigLines ==
    {QualifiedLine("A", "f", "int x"), QualifiedLine("A", "f", ""),
     ClassHeadLine("A"), ClassHeadLine("B"), MethodLine("f", "P<Q> z")}

DeclLines ==
    {ClassLine("A"), ClassFunctionLine("A", "f"), ClassFunctionLine("B", "f")}

SigTrees ==
    {(<<"src", "a.h">> :> a) @@ (<<"src", "b.cpp">> :> b) :
        a \in SeqsUpTo(SigLines, MaxSigLines), b \in SeqsUpTo(DeclLines, MaxDeclLines)}

InitSig == InitPasses(SigTrees)

SpecSig == InitSig /\ [][NextPasses]_vars

(***************************************************************************)
(* SpecDoc: one source file of documentation comments, declarations,      *)
(* preprocessor lines and other lines.                                     *)
(***************************************************************************)
DocLines ==
    {HashLine, BlankLine, DocLine(<<" doc">>), DocLine(<<>>),
     [ClassLine("A") EXCEPT !.doc = Some(<<" trailing">>)],
     ClassLine("A"), FunctionLine("g"), ClassFunctionLine("A", "f")}

DocTrees == {(<<"src", "a.cpp">> :> a) : a \in SeqsUpTo(DocLines, MaxDocLines)}

InitDoc == InitPasses(DocTrees)

SpecDoc == InitDoc /\ [][NextPasses]_vars

(***************************************************************************)
(* SpecTree: one source file of classes and subclasses whose parent names  *)
(* may name the class itself, a class that names it back, or no class.     *)
(***************************************************************************)
TreeLines ==
    {ClassLine("A"), SubclassLine("A", "A"), SubclassLine("A", "B"),
     SubclassLine("B", "A")}

TreeTrees == {(<<"src", "a.cpp">> :> a) : a \in SeqsUpTo(TreeLines, MaxTreeLines)}

InitTree == InitPasses(TreeTrees)

SpecTree == InitTree /\ [][NextPasses]_vars

(***************************************************************************)
(* SpecCollect: src holds a.h, the directory sub with b.h, and n.txt; each *)
(* header holds include lines.                                             *)
(***************************************************************************)
IncludeLines ==
    {BlankLine,
     IncludeLine(<<"a.h">>), IncludeLine(<<"b.h">>), IncludeLine(<<"sub", "b.h">>),
     IncludeLine(<<"..", "a.h">>), IncludeLine(<<"..", "src", "a.h">>)}

CollectTrees ==
    {(<<"src", "a.h">> :> a) @@ (<<"src", "sub", "b.h">> :> b)
        @@ (<<"src", "n.txt">> :> <<IncludeLine(<<"sub", "b.h">>)>>) :
        a \in SeqsUpTo(IncludeLines, MaxIncludes),
        b \in SeqsUpTo(IncludeLines, MaxIncludes)}

InitCollect ==
    /\ tree \in CollectTrees
    /\ _files = {}
    /\ stack = <<>>
    /\ order = <<>>
    /\ _function_info = <<>>
    /\ _definitions = <<>>
    /\ pc = "addDirectory(src)"
    /\ sd_file = 0
    /\ sd_line = 0
    /\ description = <<>>
    /\ current_class = NoObject
    /\ stdout = <<>>
    /\ linkRuns = 0
    /\ firstLinked = None
    /\ stream = <<>>

NextCollect ==
    \/ addDirectory
    \/ AddDirectoryStep
    \/ AddFileStep

SpecCollect == InitCollect /\ [][NextCollect]_vars

(***************************************************************************)
(* Helpers of the properties.                                              *)
(***************************************************************************)
Occurrences(seq, x) == Cardinality({k \in DOMAIN seq : seq[k] = x})
Named(seq, n) == Cardinality({k \in DOMAIN seq : seq[k].name = n})
Classes == {i \in DOMAIN _definitions : isScriptClass(_definitions[i])}
Roots == {i \in Classes : _definitions[i].parent_name = None}
NamedLike(n) == {j \in DOMAIN _definitions : _definitions[j].name = n}
Max(S) == CHOOSE x \in S : \A y \in S : y <= x
LinkedOnce == pc = "generateDocs" /\ linkRuns = 1
\* The classes whose parent_name is set and names no ScriptClass.
Unresolved ==
    {i \in Classes : /\ _definitions[i].parent_name # None
                     /\ NamedLike(_definitions[i].parent_name[1]) \cap Classes = {}}

(***************************************************************************)
(* C1.  After readScriptDefinitions and one linkParents, every class with  *)
(* no parent_name has exactly one function named isValid, exactly one      *)
(* named destroy and exactly one member named typeName, whatever macros    *)
(* were read.  (The statement of the claim.)                               *)
(***************************************************************************)
C1_RootMembersOnce ==
    LinkedOnce =>
        \A i \in Roots :
            /\ Named(_definitions[i].functions, "isValid") = 1
            /\ Named(_definitions[i].functions, "destroy") = 1
            /\ Named(_definitions[i].members, "typeName") = 1

C3_UnresolvedParentIsHarmless ==
    /\ pc # "aborted_linkParents"
    /\ LinkedOnce =>
         \A c \in Unresolved :
            /\ _definitions[c].parent = NoObject
            /\ Occurrences(stdout, ParentNotFound(c)) = 1
            /\ \A k \in DOMAIN _definitions[c].functions :
                   _definitions[c].functions[k].origin_class # None
            /\ _definitions[c].members = <<>>

(***************************************************************************)
(* C8.  Linking a second time leaves _definitions as the first linking     *)
(* left it.  (The statement of the claim.)                                 *)
(***************************************************************************)
C8_LinkingIsIdempotent ==
    (pc = "generateDocs" /\ linkRuns = 2) => Some(_definitions) = firstLinked

(***************************************************************************)
(* C9.  What the passes build does not depend on the order in which the    *)
(* set _files yields the files: every order gives the Declaration List and *)
(* the Signature Table this run has read, and the functions the parameters *)
(* this run has linked.  (The statement of the claim.)                     *)
(***************************************************************************)
ReadIn(o) == DefFiles(ScanStart(<<>>), tree, o, 1).defs
InfoIn(o) == InfoFiles(<<>>, tree, o, 1)

C9_OrderDoesNotMatter ==
    /\ pc = "linkFunctions" =>
          \A o \in Orders(_files) :
              ReadIn(o) = _definitions /\ InfoIn(o) = _function_info
    /\ (pc = "linkParents" /\ linkRuns = 0) =>
          \A o \in Orders(_files) :
              LinkTriples(ReadIn(o), InfoIn(o), 1) = _definitions

(***************************************************************************)
(* C10.  readScriptDefinitions never aborts, whatever the lines are: a     *)
(* class function or class callback macro met with no current class is     *)
(* left out.  (The statement of the claim.)                                *)
(***************************************************************************)
C10_ScanNeverAborts == pc # "aborted_readScriptDefinitions"

(***************************************************************************)
(* C4.  After linkFunctions, a function of a class has as parameters the   *)
(* text of a triple of _function_info whose owner is its origin_class and  *)
(* whose method is its name, if there is one, and None otherwise.          *)
(***************************************************************************)
Matching(f) ==
    {t \in DOMAIN _function_info :
        /\ f.origin_class = Some(_function_info[t][1])
        /\ f.name = _function_info[t][2]}

\* linkFunctions has returned and linkParents has not yet run.
FunctionsLinked == pc = "linkParents" /\ linkRuns = 0

C4_ParametersFromTheTable ==
    FunctionsLinked =>
        \A i \in Classes : \A k \in DOMAIN _definitions[i].functions :
            LET f == _definitions[i].functions[k]
            IN  IF Matching(f) # {}
                THEN \E t \in Matching(f) : f.parameters = Some(_function_info[t][3])
                ELSE f.parameters = None

\* Functions linked: one function has a text (the empty one), another has None.
C4_Witness ==
    /\ FunctionsLinked
    /\ \E i \in Classes : \E k, m \in DOMAIN _definitions[i].functions :
          /\ _definitions[i].functions[k].parameters = Some("")
          /\ _definitions[i].functions[m].parameters = None

(***************************************************************************)
(* C5.  When several triples of _function_info match a function, the first *)
(* of them in the order of _function_info gives the function its           *)
(* parameters.  (The statement of the claim.)                              *)
(***************************************************************************)
Min(S) == CHOOSE x \in S : \A y \in S : x <= y

C5_FirstTripleWins ==
    FunctionsLinked =>
        \A i \in Classes : \A k \in DOMAIN _definitions[i].functions :
            LET f == _definitions[i].functions[k]
            IN  Matching(f) # {} =>
                    f.parameters = Some(_function_info[Min(Matching(f))][3])

(***************************************************************************)
(* C5, amended.  When several triples of _function_info match a function,  *)
(* the last of them in the order of _function_info gives the function its  *)
(* parameters: each matching triple overwrites the one before.             *)
(***************************************************************************)
C5_LastTripleWins ==
    FunctionsLinked =>
        \A i \in Classes : \A k \in DOMAIN _definitions[i].functions :
            LET f == _definitions[i].functions[k]
            IN  Matching(f) # {} =>
                    f.parameters = Some(_function_info[Max(Matching(f))][3])

\* Functions linked: a function matched by two triples of different texts.
C5_Witness ==
    /\ FunctionsLinked
    /\ \E i \in Classes : \E k \in DOMAIN _definitions[i].functions :
          LET f == _definitions[i].functions[k]
          IN  /\ Cardinality(Matching(f)) >= 2
              /\ _function_info[Min(Matching(f))][3] # _function_info[Max(Matching(f))][3]
              /\ f.parameters = Some(_function_info[Max(Matching(f))][3])

(***************************************************************************)
(* C6.  In readScriptDefinitions, when a line of documentation is followed *)
(* by one or more lines that are neither documentation nor declaration     *)
(* macros (blank lines, code lines, lines that start with '#') and then by *)
(* a declaration macro, the entity the macro creates has an empty          *)
(* description.  (The statement of the claim.)                             *)
(***************************************************************************)
HasMacro(l) ==
    \/ l.cls # None \/ l.clsnc # None \/ l.sub # None \/ l.subnc # None
    \/ l.cfunc # None \/ l.ccb # None \/ l.func # None
IsDocLine(l) == ~l.hash /\ l.doc # None
\* A line with one macro that creates an entity, and nothing else.
IsDeclaration(l) ==
    /\ ~l.hash /\ l.doc = None /\ l.ccb = None
    /\ Cardinality({x \in {"cls", "clsnc", "sub", "subnc", "cfunc", "func"} :
                        l[x] # None}) = 1
\* A blank line or a line of code.
IsPlain(l) == ~l.hash /\ l.doc = None /\ ~HasMacro(l)
\* The line readScriptDefinitions has just finished, and the lines of its file.
ScanLines == tree[order[sd_file]]
JustRead == pc = "readScriptDefinitions" /\ sd_file > 0 /\ sd_line > 0
\* The entity the declaration just read has created.
Created ==
    IF ScanLines[sd_line].cfunc # None
    THEN LET fs == _definitions[current_class].functions IN fs[Len(fs)]
    ELSE _definitions[Len(_definitions)]
\* Lines m+1 .. sd_line-1 lie between a documentation line m and the line just read.
GapAfterDoc(m, between(_)) ==
    /\ IsDocLine(ScanLines[m])
    /\ \A k \in (m + 1)..(sd_line - 1) : between(ScanLines[k])
NotDocNorMacro(l) == l.hash \/ IsPlain(l)

C6_GapClearsDescription ==
    (JustRead /\ IsDeclaration(ScanLines[sd_line])) =>
        \A m \in 1..(sd_line - 2) :
            GapAfterDoc(m, NotDocNorMacro) => Created.description = <<>>

(***************************************************************************)
(* C6, amended.  The same, when at least one of the lines in between does  *)
(* not start with '#': a line that starts with '#' is skipped and leaves   *)
(* the pending description as it is, so documentation separated from a     *)
(* macro by such lines alone is attached to the macro's entity.            *)
(***************************************************************************)
C6_PlainLineClearsDescription ==
    (JustRead /\ IsDeclaration(ScanLines[sd_line])) =>
        \A m \in 1..(sd_line - 2) :
            (/\ GapAfterDoc(m, NotDocNorMacro)
             /\ \E k \in (m + 1)..(sd_line - 1) : IsPlain(ScanLines[k]))
                => Created.description = <<>>

\* A declaration just read, after a line of documentation with text and a blank line.
C6_Witness ==
    /\ JustRead
    /\ sd_line >= 3
    /\ IsDeclaration(ScanLines[sd_line])
    /\ ScanLines[sd_line - 1] = BlankLine
    /\ ScanLines[sd_line - 2] = DocLine(<<" doc">>)
    /\ Created.description = <<>>

(***************************************************************************)
(* C7.  Whatever the include lines are and however they spell a path, a    *)
(* file is taken at most once: _files never holds two names that lead to   *)
(* the same file, so no file is scanned for includes twice.  (The          *)
(* statement of the claim.)                                                *)
(***************************************************************************)
C7_OncePerResolvedFile ==
    \A f, g \in _files : Resolve(f) = Resolve(g) => f = g

(***************************************************************************)
(* C11: generateDocs returns, and when it has returned the section Objects *)
(* holds an entry for every ScriptClass of _definitions: the tree is       *)
(* finite and no class is left out of it, whatever the parent names are.   *)
(***************************************************************************)
Listed(c) == \E k \in DOMAIN stream : stream[k].tag = "li" /\ stream[k].obj = c

C11_TreeListsEveryClass ==
    /\ pc # "aborted_generateDocs"
    /\ pc = "done" => \A c \in Classes : Listed(c)

====
